---- MODULE Spec2Model ----
(***************************************************************************)
(* Invoice storage of Chaksack/invoicegen: the Sequelize Invoice model     *)
(* with its beforeCreate / beforeUpdate hooks, and the invoice handlers of *)
(* the Express controller and of the Next.js API that create, update,      *)
(* read and delete rows of the Invoices table; and the accounts: the User  *)
(* model, registration, login, email verification, password reset, Google  *)
(* sign-in, settings, and the gates in front of the invoice endpoints.     *)
(* A JWT is modelled by the flow that signed it and the user id it holds;  *)
(* its expiry is outside the model.  The server process is modelled where  *)
(* its module-level state decides: testConnection and its retries, the     *)
(* NextAuth handler with its cached database initialisation, and the       *)
(* middleware order of the Express server in production.                   *)
(*                                                                         *)
(* Money is modelled with exact integer arithmetic.  Unit prices and tax   *)
(* rates are drawn from multiples of 10, so subtotal * taxRate is always a *)
(* multiple of 100 and the tax amount is an integer; the rounding of       *)
(* double-precision floats is outside the model.                           *)
(***************************************************************************)
EXTENDS Integers, Sequences, FiniteSets, TLC

VARIABLES
    invoices,   \* the Invoices table: a set of rows
    resp,       \* the response of the request handled last
    inflight,   \* per request slot: the in-flight request and its instance
    calc,       \* the calculator on its own: input and output of one run
    users,      \* the Users table: a set of rows
    tokens,     \* the JWTs signed so far with JWT_SECRET
    proc        \* the server process: its module-level state and its calls

\* the tables and tokens of the accounts
auth == <<users, tokens>>

\* the database and the requests of the invoice and account handlers
store == <<invoices, resp, inflight, calc, users, tokens>>

vars == <<invoices, resp, inflight, calc, users, tokens, proc>>

-----------------------------------------------------------------------------
(* Bounds of the model *)

MaxInvoices == 2     \* ids (and so rows) the table can hold
MaxItems == 1        \* line items per invoice in a request to the store
MaxLen == 2          \* line items per input of the calculator on its own
MaxInFlight == 2     \* requests in flight at the same time
MaxRetries == 4      \* the retries handed to testConnection

(* Values of the model *)

Users == {"u1", "u2"}
Ids == 1 .. MaxInvoices
Null == "null"
Slots == 1 .. MaxInFlight

Item(q, p) == [quantity |-> q, unitPrice |-> p]

\* line items of requests to the store: {qty 2, unitPrice 10}, {qty 1, unitPrice 50}
StoreItems == {Item(2, 10), Item(1, 50)}
\* line items of the calculator on its own: also negative and zero factors
CalcItems == {Item(2, 10), Item(1, 50), Item(-1, 10), Item(3, 0)}
TaxRates == {0, 10}
CalcTaxRates == {-10, 0, 10, 20}
\* a subtotal / total that a caller supplies: the total of no model invoice
Bogus == CHOOSE x \in {999} : TRUE

SeqsUpTo(S, n) == UNION {[1 .. k -> S] : k \in 0 .. n}
ItemLists == SeqsUpTo(StoreItems, MaxItems)

-----------------------------------------------------------------------------
(* The calculator: the arithmetic of the hooks *)

\* items.reduce((sum, item) => sum + item.quantity * item.unitPrice, 0)
RECURSIVE reduce(_, _)
reduce(items, sum) ==
    IF items = <<>> THEN sum
    ELSE reduce(Tail(items), sum + Head(items).quantity * Head(items).unitPrice)

\* subtotal * (taxRate / 100), exact on the model's values
taxAmount(subtotal, taxRate) == (subtotal * taxRate) \div 100

computeTotals_noTax(items, taxRate) ==
    [subtotal |-> reduce(items, 0), total |-> reduce(items, 0)]

computeTotals(items, taxRate) ==
    LET subtotal == reduce(items, 0)
    IN  [subtotal |-> subtotal, total |-> subtotal + taxAmount(subtotal, taxRate)]

-----------------------------------------------------------------------------
(* The Invoice model: attributes, defaults and hooks *)

Attributes == {"id", "UserId", "items", "taxRate", "currency", "subtotal", "total"}

\* the value of key k in a request body, or the column's default when absent
Default(values, k, d) == IF k \in DOMAIN values THEN values[k] ELSE d

\* Invoice.build(values): the new instance with the defaults of the columns.
\* createdId is a history field: the id the row was inserted with.
build(values, id) ==
    [id        |-> id,
     createdId |-> id,
     UserId    |-> Default(values, "UserId", Null),
     items     |-> Default(values, "items", <<>>),
     taxRate   |-> Default(values, "taxRate", 0),
     currency  |-> Default(values, "currency", "USD"),
     subtotal  |-> Default(values, "subtotal", 0),
     total     |-> Default(values, "total", 0)]

beforeCreate_trusting(invoice) == invoice

beforeCreate(invoice) ==
    LET t == computeTotals(invoice.items, invoice.taxRate)
    IN  [invoice EXCEPT !.subtotal = t.subtotal, !.total = t.total]

\* a hook that also normalises the tax rate it read
beforeUpdate_clampsTax(invoice, changedKeys) ==
    IF "items" \in changedKeys \/ "taxRate" \in changedKeys
    THEN LET r == IF invoice.taxRate < 0 THEN 0 ELSE invoice.taxRate
             t == computeTotals(invoice.items, r)
         IN  [invoice EXCEPT !.taxRate = r, !.subtotal = t.subtotal, !.total = t.total]
    ELSE invoice

\* changedKeys: the attributes for which invoice.changed(key) is true
beforeUpdate(invoice, changedKeys) ==
    IF "items" \in changedKeys \/ "taxRate" \in changedKeys
    THEN LET t == computeTotals(invoice.items, invoice.taxRate)
         IN  [invoice EXCEPT !.subtotal = t.subtotal, !.total = t.total]
    ELSE invoice

(* instance.update(values) of Sequelize, as the handlers use it *)

\* set(): keys that are no attribute are not saved; the primary key of a
\* persisted instance is never overwritten
Settable_withId(values) == DOMAIN values \cap Attributes

Settable(values) == (DOMAIN values \cap Attributes) \ {"id"}

set(invoice, values) ==
    [k \in DOMAIN invoice |->
        IF k \in Settable(values) THEN values[k] ELSE invoice[k]]

\* changed(): the keys whose new value differs from the instance's value
\* (set() compares by value, for the items array as for the numbers)
changed(invoice, values) == {k \in Settable(values) : values[k] # invoice[k]}

\* the instance after set() and the beforeUpdate hook
updated(invoice, values) == beforeUpdate(set(invoice, values), changed(invoice, values))

\* save(): the columns of the UPDATE statement: the fields of the payload and
\* the ones the hook changed; no statement at all when nothing changed
saveFields(invoice, values) ==
    IF changed(invoice, values) = {} THEN {}
    ELSE LET before == set(invoice, values)
             after == updated(invoice, values)
         IN  Settable(values) \cup {k \in {"subtotal", "total"} : after[k] # before[k]}

\* the row after UPDATE ... SET <saveFields> WHERE id = invoice.id
written(row, invoice, values) ==
    LET fields == saveFields(invoice, values)
        after == updated(invoice, values)
    IN  [k \in DOMAIN row |-> IF k \in fields THEN after[k] ELSE row[k]]

(* The table *)

UsedIds == {r.id : r \in invoices}
Row(id) == CHOOSE r \in invoices : r.id = id

\* Invoice.findOne({ where: { id, UserId } })
findOne_anyOwner(id, userId) == {r \in invoices : r.id = id}

findOne(id, userId) == {r \in invoices : r.id = id /\ r.UserId = userId}

\* Invoice.findAll({ where: { UserId } })
findAll(userId) == {r \in invoices : r.UserId = userId}

\* the keys of the request body that the record of a successful request
\* keeps: the ones a handler must not take from the caller
Guarded == {"id", "subtotal", "total"}

Response(op, user, id, keys, status, ids) ==
    [op |-> op, user |-> user, id |-> id, keys |-> keys \cap Guarded,
     status |-> status, ids |-> ids]

-----------------------------------------------------------------------------
(* Request bodies *)

NoBody == <<>>
Opt(k, S) == {NoBody} \cup {k :> v : v \in S}

\* payloads about the totals: items, taxRate and caller-supplied subtotal, total
TotalsBodies ==
    {a @@ b @@ c @@ d :
        a \in Opt("items", ItemLists), b \in Opt("taxRate", TaxRates),
        c \in Opt("subtotal", {Bogus}), d \in Opt("total", {Bogus})}

\* payloads about the id and the owner
MetaBodies ==
    {a @@ b : a \in Opt("id", Ids), b \in Opt("UserId", Users \cup {Null})}

\* the required fields of the Next.js handlers besides items
Required == {"invoiceDate", "sender", "recipient"}
Given(keys) == [k \in keys |-> "given"]

\* payloads of the Next.js handlers: complete ones, and ones that lack a field
NextTotalsBodies ==
    {Given(Required) @@ a @@ b @@ c :
        a \in Opt("items", ItemLists), b \in Opt("taxRate", TaxRates),
        c \in Opt("subtotal", {Bogus})}
    \cup {Given(Required \ {k}) @@ a : k \in Required, a \in Opt("items", ItemLists)}

NextMetaBodies ==
    {Given(Required) @@ a @@ b @@ c :
        a \in Opt("items", {<<Item(2, 10)>>}), b \in Opt("currency", {"EUR"}),
        c \in Opt("id", Ids)}

-----------------------------------------------------------------------------
(* Express controller (invoiceController), one action per handled request.   *)
(* Requests reach it through protect and verifiedOnly: user is authenticated. *)

express_getInvoices(user) ==
    /\ resp' = Response("list", user, 0, {}, 200, {r.id : r \in findAll(user)})
    /\ UNCHANGED <<invoices, inflight, calc, proc, auth>>

express_getInvoice(user, id) ==
    /\ resp' = IF findOne(id, user) = {}
               THEN Response("get", user, id, {}, 404, {})
               ELSE Response("get", user, id, {}, 200, {id})
    /\ UNCHANGED <<invoices, inflight, calc, proc, auth>>

\* invoiceData = { ...req.body, UserId: req.user.id }
invoiceData(body, user) ==
    [k \in DOMAIN body \cup {"UserId"} |-> IF k = "UserId" THEN user ELSE body[k]]

\* Invoice.create(values) with primary key id: INSERT, or a unique-constraint error
express_createInvoice(user, body) ==
    \E id \in Ids :
        /\ IF "id" \in DOMAIN body THEN id = body.id ELSE id \notin UsedIds
        /\ IF id \in UsedIds
           THEN /\ resp' = Response("create", user, id, {}, 500, {})
                /\ UNCHANGED invoices
           ELSE /\ invoices' = invoices \cup {beforeCreate(build(invoiceData(body, user), id))}
                /\ resp' = Response("create", user, id, DOMAIN body, 201, {id})
        /\ UNCHANGED <<inflight, calc, proc, auth>>

express_updateInvoice(user, id, body) ==
    /\ IF findOne(id, user) = {}
       THEN /\ resp' = Response("update", user, id, {}, 404, {})
            /\ UNCHANGED invoices
       ELSE LET invoice == Row(id)
            IN  /\ invoices' = (invoices \ {invoice}) \cup {written(invoice, invoice, body)}
                /\ resp' = Response("update", user, id, DOMAIN body, 200, {id})
    /\ UNCHANGED <<inflight, calc, proc, auth>>

\* a destroy that is not restricted to the row found
express_deleteInvoice_allOfUser(user, id) ==
    /\ IF findOne(id, user) = {}
       THEN /\ resp' = Response("delete", user, id, {}, 404, {})
            /\ UNCHANGED invoices
       ELSE /\ invoices' = invoices \ findAll(user)
            /\ resp' = Response("delete", user, id, {}, 200, {})
    /\ UNCHANGED <<inflight, calc, proc, auth>>

express_deleteInvoice(user, id) ==
    /\ IF findOne(id, user) = {}
       THEN /\ resp' = Response("delete", user, id, {}, 404, {})
            /\ UNCHANGED invoices
       ELSE /\ invoices' = invoices \ {Row(id)}
            /\ resp' = Response("delete", user, id, {}, 200, {})
    /\ UNCHANGED <<inflight, calc, proc, auth>>

-----------------------------------------------------------------------------
(* Next.js API (pages/api/invoices), one action per handled request.         *)
(* The handler has run authenticate and requireVerifiedEmail before.         *)

\* Array.isArray(v): an array is a sequence; every other value of the model
\* that has a domain is an object
Array_isArray(v) == DOMAIN v = 1 .. Cardinality(DOMAIN v)

\* !invoiceDate || !sender || !recipient || !items || !Array.isArray(items) || items.length === 0
missingRequired_itemsOnly(body) ==
    \/ "items" \notin DOMAIN body
    \/ ~Array_isArray(body.items)
    \/ Len(body.items) = 0

missingRequired(body) ==
    \/ \E k \in Required : k \notin DOMAIN body \/ body[k] = ""
    \/ "items" \notin DOMAIN body
    \/ ~Array_isArray(body.items)
    \/ Len(body.items) = 0

Pick(body, keys) == [k \in DOMAIN body \cap keys |-> body[k]]

\* the values handed to Invoice.create: currency || 'USD', taxRate || 0
next_createValues(body, user) ==
    [items    |-> body.items,
     currency |-> Default(body, "currency", "USD"),
     taxRate  |-> Default(body, "taxRate", 0),
     UserId   |-> user]

\* the values handed to invoice.update: the destructured fields that are defined
next_updateValues(body) == Pick(body, {"items", "currency", "taxRate"})

next_getInvoices(user) ==
    /\ resp' = Response("list", user, 0, {}, 200, {r.id : r \in findAll(user)})
    /\ UNCHANGED <<invoices, inflight, calc, proc, auth>>

next_getInvoice(user, id) ==
    /\ resp' = IF findOne(id, user) = {}
               THEN Response("get", user, id, {}, 404, {})
               ELSE Response("get", user, id, {}, 200, {id})
    /\ UNCHANGED <<invoices, inflight, calc, proc, auth>>

next_createInvoice(user, body) ==
    /\ IF missingRequired(body)
       THEN /\ resp' = Response("create", user, 0, {}, 400, {})
                        @@ ("message" :> "Missing required fields")
            /\ UNCHANGED invoices
       ELSE \E id \in Ids \ UsedIds :
            /\ invoices' = invoices \cup {beforeCreate(build(next_createValues(body, user), id))}
            /\ resp' = Response("create", user, id, DOMAIN body, 201, {id})
    /\ UNCHANGED <<inflight, calc, proc, auth>>

next_updateInvoice(user, id, body) ==
    /\ IF findOne(id, user) = {}
       THEN /\ resp' = Response("update", user, id, {}, 404, {})
                        @@ ("message" :> "Invoice not found")
            /\ UNCHANGED invoices
       ELSE IF missingRequired(body)
       THEN /\ resp' = Response("update", user, id, {}, 400, {})
                        @@ ("message" :> "Missing required fields")
            /\ UNCHANGED invoices
       ELSE LET invoice == Row(id)
            IN  /\ invoices' = (invoices \ {invoice})
                       \cup {written(invoice, invoice, next_updateValues(body))}
                /\ resp' = Response("update", user, id, DOMAIN body, 200, {id})
    /\ UNCHANGED <<inflight, calc, proc, auth>>

next_deleteInvoice(user, id) ==
    /\ IF findOne(id, user) = {}
       THEN /\ resp' = Response("delete", user, id, {}, 404, {})
            /\ UNCHANGED invoices
       ELSE /\ invoices' = invoices \ {Row(id)}
            /\ resp' = Response("delete", user, id, {}, 200, {})
    /\ UNCHANGED <<inflight, calc, proc, auth>>

-----------------------------------------------------------------------------
(* The User model: attributes, defaults, hooks and comparePassword.          *)
(* The columns name, image, createdAt and updatedAt are not modelled.        *)

Emails == {"a@x.io", "b@x.io"}
\* the accounts of Google: the sub of the profile
Subs == {"g1", "g2"}
Passwords == {"password1", "password2"}

\* a JSON value with its JavaScript type
Str(s) == [type |-> "string", value |-> s]
Num(n) == [type |-> "number", value |-> n]
typeof(v) == v.type

\* settings: { sender: { name, address, city, postalCode, country }, logoUrl }
Sender(name) ==
    [name |-> Str(name), address |-> Str(""), city |-> Str(""),
     postalCode |-> Str(""), country |-> Str("")]
DefaultSettings == [sender |-> Sender(""), logoUrl |-> Str("")]

\* bcrypt.hash(password, salt): the salt is part of the hash and is not modelled
bcrypt_hash(password) == "$2a$10$" \o password
\* bcrypt.compare(candidate, hashed)
bcrypt_compare(candidate, hashed) == hashed = bcrypt_hash(candidate)

\* User.build(values): the new instance with the defaults of the columns
User_build(values, id) ==
    [id            |-> id,
     email         |-> values.email,
     password      |-> Default(values, "password", Null),
     emailVerified |-> Default(values, "emailVerified", FALSE),
     googleId      |-> Default(values, "googleId", Null),
     settings      |-> Default(values, "settings", DefaultSettings)]

\* hooks.beforeCreate of User: a password is stored hashed
User_beforeCreate(user) ==
    IF user.password # Null
    THEN [user EXCEPT !.password = bcrypt_hash(user.password)]
    ELSE user

comparePassword_noGuard(user, candidatePassword) ==
    user.password \in {Null, bcrypt_hash(candidatePassword)}

\* User.prototype.comparePassword: false for a user that has no password
comparePassword(user, candidatePassword) ==
    IF user.password = Null THEN FALSE
    ELSE bcrypt_compare(candidatePassword, user.password)

(* The Users table *)

UserIds == {u.id : u \in users}
\* User.findOne({ where: { email } }): the set of the rows found
User_findOne(email) == {u \in users : u.email = email}
\* User.findByPk(id)
User_findByPk(id) == {u \in users : u.id = id}

uniqueViolation_none(user) == FALSE

\* the unique indexes of the table: email, and googleId when it is not null
uniqueViolation(user) ==
    \E u \in users :
        /\ u.id # user.id
        /\ \/ u.email = user.email
           \/ user.googleId # Null /\ u.googleId = user.googleId

\* two accounts that registered and verified their email
Accounts ==
    {[id |-> "u1", email |-> "a@x.io", password |-> bcrypt_hash("password1"),
      emailVerified |-> TRUE, googleId |-> Null, settings |-> DefaultSettings],
     [id |-> "u2", email |-> "b@x.io", password |-> bcrypt_hash("password2"),
      emailVerified |-> TRUE, googleId |-> Null, settings |-> DefaultSettings]}

-----------------------------------------------------------------------------
(* Specification of the store: requests handled one at a time *)

Idle == [pc |-> "idle"]
NoCalc == [pc |-> "none"]
NoResponse == Response("none", Null, 0, {}, 0, {})

\* no invoice yet; the users of the requests have their accounts
Init ==
    /\ invoices = {}
    /\ resp = NoResponse
    /\ inflight = [s \in Slots |-> Idle]
    /\ calc = NoCalc
    /\ users = Accounts
    /\ tokens = {}
    /\ proc = Idle

\* the requests of users U with bodies EB (Express) and NB (Next.js)
ExpressList(U) == \E u \in U : express_getInvoices(u)
ExpressGet(U) == \E u \in U, id \in Ids : express_getInvoice(u, id)
ExpressCreate(U, EB) == \E u \in U, body \in EB : express_createInvoice(u, body)
ExpressUpdate(U, EB) == \E u \in U, id \in Ids, body \in EB : express_updateInvoice(u, id, body)
ExpressDelete(U) == \E u \in U, id \in Ids : express_deleteInvoice(u, id)
NextList(U) == \E u \in U : next_getInvoices(u)
NextGet(U) == \E u \in U, id \in Ids : next_getInvoice(u, id)
NextCreate(U, NB) == \E u \in U, body \in NB : next_createInvoice(u, body)
NextUpdate(U, NB) == \E u \in U, id \in Ids, body \in NB : next_updateInvoice(u, id, body)
NextDelete(U) == \E u \in U, id \in Ids : next_deleteInvoice(u, id)

Requests(U, EB, NB) ==
    \/ ExpressList(U) \/ ExpressGet(U) \/ ExpressCreate(U, EB)
    \/ ExpressUpdate(U, EB) \/ ExpressDelete(U)
    \/ NextList(U) \/ NextGet(U) \/ NextCreate(U, NB)
    \/ NextUpdate(U, NB) \/ NextDelete(U)

\* requests of one user about the totals
Next == Requests({"u1"}, TotalsBodies, NextTotalsBodies)

Spec == Init /\ [][Next]_vars

\* an object in the place of the items array
NotArray == 0 :> Item(2, 10)

\* payloads of the Next.js handlers about the required fields: a complete
\* one, and ones with a field absent or empty, with no items, with an empty
\* items array and with items that are no array
RequiredBodies ==
    {Given(Required) @@ a @@ b :
        a \in Opt("items", {<<>>, <<Item(2, 10)>>, NotArray}), b \in Opt("taxRate", {10})}
    \cup {Given(Required \ {k}) @@ ("items" :> <<Item(2, 10)>>) : k \in Required}
    \cup {("sender" :> "") @@ Given(Required) @@ ("items" :> <<Item(2, 10)>>)}

\* creations and updates of the Next.js API with these payloads
NextRequired ==
    \/ NextCreate(Users, RequiredBodies)
    \/ NextUpdate(Users, RequiredBodies)
    \/ NextDelete(Users)

SpecRequired == Init /\ [][NextRequired]_vars

\* requests about ids and owners
NextAccess == Requests(Users, MetaBodies, NextMetaBodies)

SpecAccess == Init /\ [][NextAccess]_vars

-----------------------------------------------------------------------------
(* Specification of the calculator on its own: a hook applied to an instance *)

CalcInputs ==
    {[id |-> 1, createdId |-> 1, UserId |-> "u1", items |-> items, taxRate |-> r,
      currency |-> "USD", subtotal |-> old, total |-> old] :
        items \in SeqsUpTo(CalcItems, MaxLen), r \in CalcTaxRates, old \in {0, Bogus}}

InitCalc ==
    /\ invoices = {}
    /\ resp = NoResponse
    /\ inflight = [s \in Slots |-> Idle]
    /\ calc \in {[pc |-> "input", in |-> i, changedKeys |-> {}, out |-> i] : i \in CalcInputs}
    /\ users = Accounts
    /\ tokens = {}
    /\ proc = Idle

RunBeforeCreate ==
    /\ calc.pc = "input"
    /\ calc' = [calc EXCEPT !.pc = "created", !.out = beforeCreate(calc.in)]
    /\ UNCHANGED <<invoices, resp, inflight, proc, auth>>

RunBeforeUpdate ==
    /\ calc.pc = "input"
    /\ \E ck \in SUBSET {"items", "taxRate", "currency"} :
        calc' = [calc EXCEPT !.pc = "updated", !.changedKeys = ck,
                             !.out = beforeUpdate(calc.in, ck)]
    /\ UNCHANGED <<invoices, resp, inflight, proc, auth>>

NextCalc == RunBeforeCreate \/ RunBeforeUpdate

SpecCalc == InitCalc /\ [][NextCalc]_vars

\* the hook has recomputed the totals of calc.in
Recomputed ==
    \/ calc.pc = "created"
    \/ calc.pc = "updated" /\ calc.changedKeys \cap {"items", "taxRate"} # {}

-----------------------------------------------------------------------------
(* Specification of requests in flight: a handler awaits the database, and    *)
(* the other requests run in between.  updateInvoice is findOne, then         *)
(* update; createInvoice builds the instance and runs the hook, then inserts. *)

ConcCreateBodies == {"items" :> <<Item(2, 10)>>, ("items" :> <<Item(1, 50)>>) @@ ("taxRate" :> 10)}
ConcUpdateBodies == {"items" :> <<Item(1, 50)>>, "taxRate" :> 10, "taxRate" :> 0}

\* the ids of the instances that in-flight creates have built: a UUIDV4 is
\* never generated twice
BuiltIds == {inflight[s].id : s \in {t \in Slots : inflight[t].pc = "creating"}}

\* createInvoice up to the INSERT: the instance is built, the hook has run
conc_createBegin(s, user, body) ==
    /\ inflight[s].pc = "idle"
    /\ \E id \in Ids \ (UsedIds \cup BuiltIds) :
        inflight' = [inflight EXCEPT ![s] =
            [pc |-> "creating", user |-> user, id |-> id, body |-> body,
             invoice |-> beforeCreate(build(invoiceData(body, user), id))]]
    /\ UNCHANGED <<invoices, resp, calc, proc, auth>>

\* the INSERT of createInvoice
conc_createCommit(s) ==
    /\ inflight[s].pc = "creating"
    /\ LET r == inflight[s]
       IN  /\ invoices' = invoices \cup {r.invoice}
           /\ resp' = Response("create", r.user, r.id, DOMAIN r.body, 201, {r.id})
    /\ inflight' = [inflight EXCEPT ![s] = Idle]
    /\ UNCHANGED <<calc, proc, auth>>

\* updateInvoice up to its findOne: 404, or the instance it will update
conc_updateFind(s, user, id, body) ==
    /\ inflight[s].pc = "idle"
    /\ IF findOne(id, user) = {}
       THEN /\ resp' = Response("update", user, id, {}, 404, {})
            /\ UNCHANGED inflight
       ELSE /\ inflight' = [inflight EXCEPT ![s] =
                [pc |-> "updating", user |-> user, id |-> id, body |-> body,
                 invoice |-> Row(id)]]
            /\ UNCHANGED resp
    /\ UNCHANGED <<invoices, calc, proc, auth>>

\* invoice.update(req.body) of the instance found before: the UPDATE changes
\* the row as it is in the table now
conc_updateSave(s) ==
    /\ inflight[s].pc = "updating"
    /\ LET r == inflight[s]
       IN  /\ invoices' = (invoices \ {Row(r.id)})
                  \cup {written(Row(r.id), r.invoice, r.body)}
           /\ resp' = Response("update", r.user, r.id, DOMAIN r.body, 200, {r.id})
    /\ inflight' = [inflight EXCEPT ![s] = Idle]
    /\ UNCHANGED <<calc, proc, auth>>

ConcCreateBegin == \E s \in Slots, body \in ConcCreateBodies : conc_createBegin(s, "u1", body)
ConcCreateCommit == \E s \in Slots : conc_createCommit(s)
ConcUpdateFind == \E s \in Slots, id \in Ids, body \in ConcUpdateBodies : conc_updateFind(s, "u1", id, body)
ConcUpdateSave == \E s \in Slots : conc_updateSave(s)

NextConc ==
    \/ ConcCreateBegin \/ ConcCreateCommit
    \/ ConcUpdateFind \/ ConcUpdateSave

SpecConc == Init /\ [][NextConc]_vars

-----------------------------------------------------------------------------
(* Accounts: the handlers of pages/api/auth and the tokens they sign.        *)
(* Every token is jwt.sign({ id: user.id }, JWT_SECRET): its payload is the  *)
(* id of a user.  flow is a history field, the handler that signed it; no    *)
(* handler can read it.  Time is not modelled: a token that has expired is   *)
(* a token that jwt.verify rejects, like a forged one.                       *)

Token(flow, id) == [flow |-> flow, id |-> id]
\* no Authorization header, no token parameter
NoToken == Token("none", Null)
\* tokens that were not signed with JWT_SECRET, or have expired
Forged == {Token("forged", id) : id \in Users}
\* what a client can present
Presented == tokens \cup Forged \cup {NoToken}

\* jwt.verify(token, JWT_SECRET) does not throw
jwt_verify(token) == token \in tokens

JsonNull == [type |-> "null"]

\* res.status(status).json({ success, message, data }); op and req record
\* the request that is answered: the endpoint, and its email or its token
Reply(op, req, status, message, data) ==
    [op |-> op, req |-> req, status |-> status, message |-> message, data |-> data]

\* handleError(res, error): 500 with the message of the error
handleError(op, req, message) == Reply(op, req, 500, message, JsonNull)

\* handleSuccess(res, data, message, statusCode)
handleSuccess(op, req, data, message, statusCode) == Reply(op, req, statusCode, message, data)

\* the email of a request body
Email(body) == [email |-> Default(body, "email", Null)]

\* /^[^\s@]+@[^\s@]+\.[^\s@]+$/.test(email)
emailRegex_test(email) ==
    LET Char(i) == SubSeq(email, i, i)
    IN  \E p \in 1 .. Len(email), q \in 1 .. Len(email) :
            /\ Char(p) = "@" /\ Char(q) = "."
            /\ 1 < p /\ p + 1 < q /\ q < Len(email)
            /\ \A i \in 1 .. Len(email) :
                /\ Char(i) # " "
                /\ Char(i) = "@" => i = p

\* bodies of register, login and forgot-password: well-formed and malformed
\* emails, long and short passwords, missing fields
CredentialBodies ==
    {a @@ b : a \in Opt("email", Emails \cup {"a@x"}),
              b \in Opt("password", Passwords \cup {"short"})}

\* the validation of register: the message of the 400, or "ok"
validateRegister(body) ==
    IF "email" \notin DOMAIN body \/ "password" \notin DOMAIN body
    THEN "Email and password are required"
    ELSE IF ~emailRegex_test(body.email) THEN "Invalid email format"
    ELSE IF Len(body.password) < 8 THEN "Password must be at least 8 characters long"
    ELSE "ok"

userResponse_whole(user) == user

\* const userResponse = { id, email, emailVerified, settings, createdAt }
userResponse(user) ==
    [id |-> user.id, email |-> user.email, emailVerified |-> user.emailVerified,
     settings |-> user.settings]

\* the values that register hands to User.create
registerValues(body, emailVerified) ==
    [email |-> body.email, password |-> body.password,
     emailVerified |-> emailVerified, settings |-> DefaultSettings]

\* pages/api/auth/register.ts: the email is verified at once, no token
register_autoVerify(body) ==
    LET v == validateRegister(body)
    IN  /\ IF v # "ok"
           THEN /\ resp' = Reply("register", Email(body), 400, v, JsonNull)
                /\ UNCHANGED users
           ELSE IF User_findOne(body.email) # {}
           THEN /\ resp' = Reply("register", Email(body), 400, "User with this email already exists", JsonNull)
                /\ UNCHANGED users
           ELSE \E id \in Users \ UserIds :
                LET user == User_beforeCreate(User_build(registerValues(body, TRUE), id))
                IN  /\ users' = users \cup {user}
                    /\ resp' = handleSuccess("register", Email(body), userResponse(user),
                                             "User registered successfully", 201)
        /\ UNCHANGED <<invoices, inflight, calc, proc, tokens>>

\* the register handler that requires verification: emailVerified false and
\* a verification token; dbInitialized is the result of initDb()
register(body, dbInitialized) ==
    LET v == validateRegister(body)
    IN  IF ~dbInitialized
        THEN /\ resp' = Reply("register", Email(body), 500, "Database connection failed. Please try again later.", JsonNull)
             /\ UNCHANGED <<invoices, inflight, calc, proc, auth>>
        ELSE IF v # "ok"
        THEN /\ resp' = Reply("register", Email(body), 400, v, JsonNull)
             /\ UNCHANGED <<invoices, inflight, calc, proc, auth>>
        ELSE IF User_findOne(body.email) # {}
        THEN /\ resp' = Reply("register", Email(body), 400, "User with this email already exists", JsonNull)
             /\ UNCHANGED <<invoices, inflight, calc, proc, auth>>
        ELSE \E id \in Users \ UserIds :
             LET user == User_beforeCreate(User_build(registerValues(body, FALSE), id))
             IN  /\ users' = users \cup {user}
                 /\ tokens' = tokens \cup {Token("verify", user.id)}
                 /\ resp' = handleSuccess("register", Email(body), userResponse(user),
                        "User registered successfully. Please check your email to verify your account.", 201)
                 /\ UNCHANGED <<invoices, inflight, calc, proc>>

\* pages/api/auth/login
login(body) ==
    /\ IF "email" \notin DOMAIN body \/ "password" \notin DOMAIN body
       THEN /\ resp' = Reply("login", Email(body), 400, "Email and password are required", JsonNull)
            /\ UNCHANGED tokens
       ELSE IF User_findOne(body.email) = {}
       THEN /\ resp' = Reply("login", Email(body), 401, "Invalid credentials", JsonNull)
            /\ UNCHANGED tokens
       ELSE LET user == CHOOSE u \in User_findOne(body.email) : TRUE
            IN  IF ~comparePassword(user, body.password)
                THEN /\ resp' = Reply("login", Email(body), 401, "Invalid credentials", JsonNull)
                     /\ UNCHANGED tokens
                ELSE LET token == Token("login", user.id)
                     IN  /\ tokens' = tokens \cup {token}
                         /\ resp' = handleSuccess("login", Email(body),
                                [token |-> token, user |-> userResponse(user)],
                                "Login successful", 200)
    /\ UNCHANGED <<invoices, inflight, calc, proc, users>>

\* if (user.emailVerified): the answer is 400 and nothing is saved
alreadyVerified_never(user) == FALSE

alreadyVerified(user) == user.emailVerified

\* pages/api/auth/verify-email?token=
verifyEmail(token) ==
    /\ IF token = NoToken
       THEN /\ resp' = Reply("verify-email", token, 400, "Token is required", JsonNull)
            /\ UNCHANGED users
       ELSE IF ~jwt_verify(token)
       THEN /\ resp' = Reply("verify-email", token, 400, "Invalid or expired token", JsonNull)
            /\ UNCHANGED users
       ELSE IF User_findByPk(token.id) = {}
       THEN /\ resp' = Reply("verify-email", token, 404, "User not found", JsonNull)
            /\ UNCHANGED users
       ELSE LET user == CHOOSE u \in User_findByPk(token.id) : TRUE
            IN  IF alreadyVerified(user)
                THEN /\ resp' = Reply("verify-email", token, 400, "Email is already verified", JsonNull)
                     /\ UNCHANGED users
                ELSE /\ users' = (users \ {user}) \cup {[user EXCEPT !.emailVerified = TRUE]}
                     /\ resp' = handleSuccess("verify-email", token, JsonNull,
                                              "Email verified successfully", 200)
    /\ UNCHANGED <<invoices, inflight, calc, proc, tokens>>

\* pages/api/auth/forgot-password: the reset link, with the reset token, is
\* the data of the response
forgotPassword(body) ==
    /\ IF "email" \notin DOMAIN body
       THEN /\ resp' = Reply("forgot-password", Email(body), 400, "Email is required", JsonNull)
            /\ UNCHANGED tokens
       ELSE IF ~emailRegex_test(body.email)
       THEN /\ resp' = Reply("forgot-password", Email(body), 400, "Invalid email format", JsonNull)
            /\ UNCHANGED tokens
       ELSE IF User_findOne(body.email) = {}
       THEN /\ resp' = handleSuccess("forgot-password", Email(body), JsonNull,
                    "If your email is registered, you will receive a password reset link", 200)
            /\ UNCHANGED tokens
       ELSE LET user == CHOOSE u \in User_findOne(body.email) : TRUE
                resetToken == Token("reset", user.id)
            IN  /\ tokens' = tokens \cup {resetToken}
                /\ resp' = handleSuccess("forgot-password", Email(body),
                        [type |-> "object", resetLink |-> resetToken],
                        "If your email is registered, you will receive a password reset link", 200)
    /\ UNCHANGED <<invoices, inflight, calc, proc, users>>

(* Authentication of the Next.js API (lib/api-utils) *)

\* authenticate(req, res): the message of its 401, or "ok"
authenticate(bearer) ==
    IF bearer = NoToken THEN "No token provided"
    ELSE IF ~jwt_verify(bearer) THEN "Invalid token"
    ELSE IF User_findByPk(bearer.id) = {} THEN "User not found"
    ELSE "ok"

\* the user that authenticate puts on the request
requestUser(bearer) == CHOOSE u \in User_findByPk(bearer.id) : TRUE

requireVerifiedEmail_open(user) == TRUE

\* requireVerifiedEmail(req, res): true, or a 403
requireVerifiedEmail(user) == user.emailVerified

\* the handlers of pages/api/invoices and pages/api/invoices/[id]:
\* authenticate, requireVerifiedEmail, then the function of the method with
\* user.id
next_invoices(bearer, method, id, body) ==
    IF authenticate(bearer) # "ok"
    THEN /\ resp' = Reply("invoices", bearer, 401, authenticate(bearer), JsonNull)
         /\ UNCHANGED <<invoices, inflight, calc, proc, auth>>
    ELSE IF ~requireVerifiedEmail(requestUser(bearer))
    THEN /\ resp' = Reply("invoices", bearer, 403, "Email verification required", JsonNull)
         /\ UNCHANGED <<invoices, inflight, calc, proc, auth>>
    ELSE LET user == requestUser(bearer).id
         IN  CASE method = "list" -> next_getInvoices(user)
               [] method = "get" -> next_getInvoice(user, id)
               [] method = "create" -> next_createInvoice(user, body)
               [] method = "update" -> next_updateInvoice(user, id, body)
               [] method = "delete" -> next_deleteInvoice(user, id)

\* pages/api/auth/profile
profile(bearer) ==
    /\ resp' = IF authenticate(bearer) # "ok"
               THEN Reply("profile", bearer, 401, authenticate(bearer), JsonNull)
               ELSE handleSuccess("profile", bearer, userResponse(requestUser(bearer)),
                                  "User profile retrieved successfully", 200)
    /\ UNCHANGED <<invoices, inflight, calc, proc, auth>>

(* Settings *)

\* bodies of PUT /api/users/settings of the Next.js API
SettingsBodies ==
    {NoBody}
    \cup {"settings" :> s : s \in
            {[sender |-> [name |-> Str("Acme")]],
             [logoUrl |-> Str("logo.png")],
             [sender |-> [name |-> Num("5")]],
             [logoUrl |-> Num("5")]}}

\* the message of the 400 of updateSettings, or "ok"
validateSettings(body) ==
    IF "settings" \notin DOMAIN body THEN "Settings object is required"
    ELSE IF /\ "sender" \in DOMAIN body.settings
            /\ \E f \in {"name", "address", "city", "postalCode", "country"}
                        \cap DOMAIN body.settings.sender :
                 typeof(body.settings.sender[f]) # "string"
    THEN "Sender information must be strings"
    ELSE IF /\ "logoUrl" \in DOMAIN body.settings
            /\ typeof(body.settings.logoUrl) # "string"
    THEN "Logo URL must be a string"
    ELSE "ok"

updatedSettings_replacing(old, settings) == settings

\* { ...user.settings, ...settings,
\*   sender: settings.sender ? { ...user.settings.sender, ...settings.sender }
\*                           : user.settings.sender }
updatedSettings(old, settings) ==
    LET base == settings @@ old
        oldSender == IF "sender" \in DOMAIN old THEN old.sender ELSE <<>>
    IN  IF "sender" \in DOMAIN settings
        THEN [k \in DOMAIN base |->
                IF k = "sender" THEN settings.sender @@ oldSender ELSE base[k]]
        ELSE base

\* GET /api/users/settings
next_getSettings(bearer) ==
    /\ resp' = IF authenticate(bearer) # "ok"
               THEN Reply("get-settings", bearer, 401, authenticate(bearer), JsonNull)
               ELSE handleSuccess("get-settings", bearer, requestUser(bearer).settings, "Success", 200)
    /\ UNCHANGED <<invoices, inflight, calc, proc, auth>>

\* PUT /api/users/settings
next_updateSettings(bearer, body) ==
    /\ IF authenticate(bearer) # "ok"
       THEN /\ resp' = Reply("settings", bearer, 401, authenticate(bearer), JsonNull)
            /\ UNCHANGED users
       ELSE IF validateSettings(body) # "ok"
       THEN /\ resp' = Reply("settings", bearer, 400, validateSettings(body), JsonNull)
            /\ UNCHANGED users
       ELSE LET user == requestUser(bearer)
                new == updatedSettings(user.settings, body.settings)
            IN  /\ users' = (users \ {user}) \cup {[user EXCEPT !.settings = new]}
                /\ resp' = handleSuccess("settings", bearer, new, "Settings updated successfully", 200)
    /\ UNCHANGED <<invoices, inflight, calc, proc, tokens>>

(* The Express routers: protect, then verifiedOnly on the invoice routes *)

\* protect: the request carries a token of a stored user
protect(bearer) == jwt_verify(bearer) /\ User_findByPk(bearer.id) # {}

\* verifiedOnly: the user of the request has verified the email
verifiedOnly(user) == user.emailVerified

\* routes/invoices: router.use(protect); router.use(verifiedOnly); then the
\* function of the route
express_invoices(bearer, method, id, body) ==
    IF ~protect(bearer)
    THEN /\ resp' = Reply("invoices", bearer, 401, "Not authorized", JsonNull)
         /\ UNCHANGED <<invoices, inflight, calc, proc, auth>>
    ELSE IF ~verifiedOnly(requestUser(bearer))
    THEN /\ resp' = Reply("invoices", bearer, 403, "Email verification required", JsonNull)
         /\ UNCHANGED <<invoices, inflight, calc, proc, auth>>
    ELSE LET user == requestUser(bearer).id
         IN  CASE method = "list" -> express_getInvoices(user)
               [] method = "get" -> express_getInvoice(user, id)
               [] method = "create" -> express_createInvoice(user, body)
               [] method = "update" -> express_updateInvoice(user, id, body)
               [] method = "delete" -> express_deleteInvoice(user, id)

\* bodies of PUT /api/users/settings of the Express API: any JSON object
ExpressSettingsBodies ==
    {[logoUrl |-> Str("logo.png")],
     [sender |-> Sender("Acme"), logoUrl |-> Str("")]}

\* userController.getSettings, reached through protect
express_getSettings(bearer) ==
    /\ resp' = IF ~protect(bearer)
               THEN Reply("get-settings", bearer, 401, "Not authorized", JsonNull)
               ELSE Reply("get-settings", bearer, 200, "", requestUser(bearer).settings)
    /\ UNCHANGED <<invoices, inflight, calc, proc, auth>>

\* userController.updateSettings, reached through protect:
\* user.settings = req.body
express_updateSettings(bearer, body) ==
    /\ IF ~protect(bearer)
       THEN /\ resp' = Reply("settings", bearer, 401, "Not authorized", JsonNull)
            /\ UNCHANGED users
       ELSE LET user == requestUser(bearer)
            IN  /\ users' = (users \ {user}) \cup {[user EXCEPT !.settings = body]}
                /\ resp' = Reply("settings", bearer, 200, "", body)
    /\ UNCHANGED <<invoices, inflight, calc, proc, tokens>>

(* Google sign-in: callbacks.signIn of NextAuth.  The callback answers true  *)
(* (status 200) or false (403), or throws (500).  The customToken of the jwt *)
(* callback carries the id of NextAuth's own user record, which the source   *)
(* does not relate to User.id: it is not among the tokens of the model.      *)

\* the profile that Google hands to signIn: the address of an account and its sub
GoogleProfile(email, sub) == [email |-> email, sub |-> sub]

\* the result of existingUser.update({ googleId, ..., emailVerified: true })
linkGoogle_resetting(user, sub) ==
    [user EXCEPT !.googleId = sub, !.emailVerified = TRUE, !.settings = DefaultSettings]

linkGoogle(user, sub) == [user EXCEPT !.googleId = sub, !.emailVerified = TRUE]

\* signIn({ user, account, profile }); guarded: the callback checks
\* dbInitialized and catches the errors of the database
signIn(provider, email, sub, dbInitialized, guarded) ==
    /\ IF provider # "google" \/ (guarded /\ ~dbInitialized)
       THEN /\ resp' = Reply("signIn", GoogleProfile(email, sub), 403, "false", JsonNull)
            /\ UNCHANGED users
       ELSE IF email = Null
       THEN /\ resp' = Reply("signIn", GoogleProfile(email, sub), 200, "true", JsonNull)
            /\ UNCHANGED users
       ELSE IF User_findOne(email) # {}
       THEN LET existingUser == CHOOSE u \in User_findOne(email) : TRUE
            IN  IF existingUser.googleId # Null
                THEN /\ resp' = Reply("signIn", GoogleProfile(email, sub), 200, "true", JsonNull)
                     /\ UNCHANGED users
                ELSE IF uniqueViolation(linkGoogle(existingUser, sub))
                THEN /\ resp' = IF guarded THEN Reply("signIn", GoogleProfile(email, sub), 403, "false", JsonNull)
                                ELSE handleError("signIn", GoogleProfile(email, sub), "Validation error")
                     /\ UNCHANGED users
                ELSE /\ users' = (users \ {existingUser}) \cup {linkGoogle(existingUser, sub)}
                     /\ resp' = Reply("signIn", GoogleProfile(email, sub), 200, "true", JsonNull)
       ELSE \E id \in Users \ UserIds :
            LET user == User_beforeCreate(User_build([email |-> email, googleId |-> sub, emailVerified |-> TRUE], id))
            IN  IF uniqueViolation(user)
                THEN /\ resp' = IF guarded THEN Reply("signIn", GoogleProfile(email, sub), 403, "false", JsonNull)
                                ELSE handleError("signIn", GoogleProfile(email, sub), "Validation error")
                     /\ UNCHANGED users
                ELSE /\ users' = users \cup {user}
                     /\ resp' = Reply("signIn", GoogleProfile(email, sub), 200, "true", JsonNull)
    /\ UNCHANGED <<invoices, inflight, calc, proc, tokens>>

-----------------------------------------------------------------------------
(* Specification of the accounts: requests handled one at a time, from an   *)
(* empty database                                                            *)

InitAuth ==
    /\ invoices = {}
    /\ resp = NoResponse
    /\ inflight = [s \in Slots |-> Idle]
    /\ calc = NoCalc
    /\ users = {}
    /\ tokens = {}
    /\ proc = Idle

\* the body of the invoice requests of this specification
GateBody == Given(Required) @@ ("items" :> <<Item(2, 10)>>)

\* the profiles of the two Google accounts
GoogleProfiles == {GoogleProfile("a@x.io", "g1"), GoogleProfile("b@x.io", "g2")}

\* bodies that register with the first password only
RegisterBodies == {b \in CredentialBodies : "password" \in DOMAIN b => b.password # "password2"}

\* the tokens of the flows F among the presented ones
Of(F) == {t \in Presented : t.flow \in F}

\* the bodies of one registration and login for each address
LoginBodies == {[email |-> e, password |-> "password1"] : e \in Emails}

\* registration, login, verification, password reset, profile, Google
NextUsers ==
    \/ \E body \in RegisterBodies : register_autoVerify(body)
    \/ \E body \in RegisterBodies, dbInitialized \in BOOLEAN : register(body, dbInitialized)
    \/ \E body \in CredentialBodies : login(body)
    \/ \E token \in Presented : verifyEmail(token)
    \/ \E body \in CredentialBodies : forgotPassword(body)
    \/ \E bearer \in Presented : profile(bearer)
    \/ \E provider \in {"google", "credentials"},
          p \in GoogleProfiles \cup {GoogleProfile(Null, "g1")},
          dbInitialized \in BOOLEAN, guarded \in BOOLEAN :
            signIn(provider, p.email, p.sub, dbInitialized, guarded)

SpecUsers == InitAuth /\ [][NextUsers]_vars

-----------------------------------------------------------------------------
(* Specification of the gates of the invoice endpoints: a@x.io registers    *)
(* with verification, b@x.io registers verified, both log in and send the    *)
(* invoice requests of the two APIs.                                         *)

NextGate ==
    \/ \E body \in LoginBodies, dbInitialized \in BOOLEAN :
        body.email = "a@x.io" /\ register(body, dbInitialized)
    \/ \E body \in LoginBodies : body.email = "b@x.io" /\ register_autoVerify(body)
    \/ \E body \in LoginBodies : login(body)
    \/ \E token \in Of({"verify"}) : verifyEmail(token)
    \/ \E bearer \in Presented : next_invoices(bearer, "list", Null, NoBody)
    \/ \E bearer \in Presented, id \in Ids : next_invoices(bearer, "get", id, NoBody)
    \/ \E bearer \in Presented : next_invoices(bearer, "create", Null, GateBody)
    \/ \E bearer \in Presented, id \in Ids : next_invoices(bearer, "update", id, GateBody @@ ("taxRate" :> 10))
    \/ \E bearer \in Presented, id \in Ids : next_invoices(bearer, "delete", id, NoBody)
    \/ \E bearer \in Presented : express_invoices(bearer, "list", Null, NoBody)
    \/ \E bearer \in Presented, id \in Ids : express_invoices(bearer, "get", id, NoBody)
    \/ \E bearer \in Presented : express_invoices(bearer, "create", Null, GateBody)
    \/ \E bearer \in Presented, id \in Ids :
        express_invoices(bearer, "update", id, "taxRate" :> 10)
    \/ \E bearer \in Presented, id \in Ids : express_invoices(bearer, "delete", id, NoBody)

SpecGate == InitAuth /\ [][NextGate]_vars

(* Specification of the life of the users: they register, sign in with      *)
(* Google, log in, verify, change their settings and send invoice requests.  *)

NextLifecycle ==
    \/ \E body \in LoginBodies, dbInitialized \in BOOLEAN :
        body.email = "a@x.io" /\ register(body, dbInitialized)
    \/ \E body \in LoginBodies : body.email = "b@x.io" /\ register_autoVerify(body)
    \/ \E body \in LoginBodies : login(body)
    \/ \E token \in Of({"verify"}) : verifyEmail(token)
    \/ \E provider \in {"google", "credentials"},
          p \in GoogleProfiles \cup {GoogleProfile(Null, "g1")},
          dbInitialized \in BOOLEAN, guarded \in BOOLEAN :
            signIn(provider, p.email, p.sub, dbInitialized, guarded)
    \/ \E bearer \in Of({"login"}) : next_getSettings(bearer)
    \/ \E bearer \in Of({"login"}) : express_getSettings(bearer)
    \/ \E bearer \in Of({"login", "none"}), body \in SettingsBodies :
        next_updateSettings(bearer, body)
    \/ \E bearer \in Of({"login"}), body \in ExpressSettingsBodies :
        express_updateSettings(bearer, body)
    \/ \E bearer \in Presented : next_invoices(bearer, "create", Null, GateBody)
    \/ \E bearer \in Presented, id \in Ids : next_invoices(bearer, "delete", id, NoBody)

SpecLifecycle == InitAuth /\ [][NextLifecycle]_vars

(* Specification of the settings: the two accounts log in, read and change  *)
(* their settings through either API.                                        *)

NextSettings ==
    \/ \E body \in LoginBodies \cup {[email |-> "b@x.io", password |-> "password2"]} :
        login(body)
    \/ \E bearer \in Of({"login"}) : next_getSettings(bearer)
    \/ \E bearer \in Of({"login"}) : express_getSettings(bearer)
    \/ \E bearer \in Of({"login", "none"}), body \in SettingsBodies :
        next_updateSettings(bearer, body)
    \/ \E bearer \in Of({"login"}), body \in ExpressSettingsBodies :
        express_updateSettings(bearer, body)

SpecSettings == Init /\ [][NextSettings]_vars

-----------------------------------------------------------------------------
(* Specification of account requests in flight: register is findOne, then   *)
(* create; signIn is findOne, then update or create.  The other requests     *)
(* run between the two awaits.                                               *)

\* the id of a new instance, UUIDV4: ids are interchangeable, and the first
\* one that no stored user and no instance built in flight has stands for
\* every fresh one
FreshUserId ==
    LET AccountIds == Users \cup {"n" \o ToString(s) : s \in Slots}
        Building == {t \in Slots : inflight[t].pc \in {"registering", "creatingUser"}}
        BuiltUserIds == {inflight[s].user.id : s \in Building}
    IN  CHOOSE id \in AccountIds \ (UserIds \cup BuiltUserIds) : TRUE

\* register up to its findOne; verified: the handler that verifies at once
conc_registerFind(s, body, verified) ==
    /\ inflight[s].pc = "idle"
    /\ IF validateRegister(body) # "ok"
       THEN /\ resp' = Reply("register", Email(body), 400, validateRegister(body), JsonNull)
            /\ UNCHANGED inflight
       ELSE IF User_findOne(body.email) # {}
       THEN /\ resp' = Reply("register", Email(body), 400, "User with this email already exists", JsonNull)
            /\ UNCHANGED inflight
       ELSE /\ inflight' = [inflight EXCEPT ![s] =
                    [pc |-> "registering", body |-> body, verified |-> verified,
                     user |-> User_build(registerValues(body, verified), FreshUserId)]]
            /\ UNCHANGED resp
    /\ UNCHANGED <<invoices, calc, proc, auth>>

\* User.create of register: the hook, then the INSERT or the error of the
\* unique index.  register.ts passes the error to handleError; the handler
\* with verification answers 400.
conc_registerCreate(s) ==
    /\ inflight[s].pc = "registering"
    /\ LET r == inflight[s]
           user == User_beforeCreate(r.user)
       IN  IF uniqueViolation(user)
           THEN /\ resp' = IF r.verified
                           THEN handleError("register", Email(r.body), "Validation error")
                           ELSE Reply("register", Email(r.body), 400,
                                      "User with this email already exists", JsonNull)
                /\ UNCHANGED auth
           ELSE /\ users' = users \cup {user}
                /\ tokens' = IF r.verified THEN tokens
                             ELSE tokens \cup {Token("verify", user.id)}
                /\ resp' = handleSuccess("register", Email(r.body), userResponse(user),
                                         "User registered successfully", 201)
    /\ inflight' = [inflight EXCEPT ![s] = Idle]
    /\ UNCHANGED <<invoices, calc, proc>>

\* signIn of Google up to its findOne
conc_signInFind(s, email, sub, guarded) ==
    /\ inflight[s].pc = "idle"
    /\ IF User_findOne(email) # {}
       THEN LET existingUser == CHOOSE u \in User_findOne(email) : TRUE
            IN  IF existingUser.googleId # Null
                THEN /\ resp' = Reply("signIn", GoogleProfile(email, sub), 200, "true", JsonNull)
                     /\ UNCHANGED inflight
                ELSE /\ inflight' = [inflight EXCEPT ![s] =
                            [pc |-> "linking", email |-> email, sub |-> sub,
                             guarded |-> guarded, user |-> existingUser]]
                     /\ UNCHANGED resp
       ELSE /\ inflight' = [inflight EXCEPT ![s] =
                    [pc |-> "creatingUser", email |-> email, sub |-> sub,
                     guarded |-> guarded,
                     user |-> User_build([email |-> email, googleId |-> sub, emailVerified |-> TRUE], FreshUserId)]]
            /\ UNCHANGED resp
    /\ UNCHANGED <<invoices, calc, proc, auth>>

\* existingUser.update or User.create of signIn: the statement, or the error
\* of a unique index
conc_signInWrite(s) ==
    /\ inflight[s].pc \in {"linking", "creatingUser"}
    /\ LET r == inflight[s]
           row == CHOOSE u \in User_findByPk(r.user.id) : TRUE
           new == IF r.pc = "linking" THEN linkGoogle(row, r.sub)
                  ELSE User_beforeCreate(r.user)
       IN  IF uniqueViolation(new)
           THEN /\ resp' = IF r.guarded
                           THEN Reply("signIn", GoogleProfile(r.email, r.sub), 403, "false", JsonNull)
                           ELSE handleError("signIn", GoogleProfile(r.email, r.sub),
                                            "Validation error")
                /\ UNCHANGED users
           ELSE /\ users' = (users \ User_findByPk(r.user.id)) \cup {new}
                /\ resp' = Reply("signIn", GoogleProfile(r.email, r.sub), 200, "true", JsonNull)
    /\ inflight' = [inflight EXCEPT ![s] = Idle]
    /\ UNCHANGED <<invoices, calc, proc, tokens>>

\* register.ts racing itself and the signIn callback that catches the errors
NextRace ==
    \/ \E s \in Slots, body \in RegisterBodies : conc_registerFind(s, body, TRUE)
    \/ \E s \in Slots : conc_registerCreate(s)
    \/ \E s \in Slots, p \in GoogleProfiles : conc_signInFind(s, p.email, p.sub, TRUE)
    \/ \E s \in Slots : conc_signInWrite(s)

SpecRace == InitAuth /\ [][NextRace]_vars

-----------------------------------------------------------------------------
(* The connection test of lib/db/db.ts: testConnection(retries, delay).     *)
(* proc holds the call: its position, retries, currentTry, the log of what  *)
(* it did ("wait", or the outcome of an attempt) and the value it returned.  *)

\* the outcomes of sequelize.authenticate(): it resolves, or it rejects with
\* one of the errors of Sequelize
Outcomes == {"ok", "SequelizeConnectionError", "SequelizeConnectionTimedOutError"}

\* if (currentTry >= retries) ... return false
exhausted_never(currentTry, retries) == FALSE

exhausted(currentTry, retries) == currentTry >= retries

\* the call, up to the first test of while (currentTry < retries)
testConnection(retries) ==
    /\ proc.pc \in {"idle", "returned"}
    /\ proc' = IF 0 < retries
               THEN [pc |-> "authenticate", retries |-> retries, currentTry |-> 0,
                     log |-> <<>>, result |-> Null]
               ELSE [pc |-> "returned", retries |-> retries, currentTry |-> 0,
                     log |-> <<>>, result |-> "false"]
    /\ UNCHANGED store

\* await sequelize.authenticate() settles: return true, or the catch block
testConnection_authenticate(outcome) ==
    /\ proc.pc = "authenticate"
    /\ LET log == Append(proc.log, outcome)
           currentTry == proc.currentTry + 1
       IN  proc' =
            IF outcome = "ok"
            THEN [proc EXCEPT !.pc = "returned", !.log = log, !.result = "true"]
            ELSE IF exhausted(currentTry, proc.retries)
            THEN [proc EXCEPT !.pc = "returned", !.log = log, !.currentTry = currentTry,
                              !.result = "false"]
            ELSE [proc EXCEPT !.pc = "waiting", !.log = log, !.currentTry = currentTry]
    /\ UNCHANGED store

\* the timer of setTimeout(resolve, delay) fires, and the while condition is
\* tested again
testConnection_wait ==
    /\ proc.pc = "waiting"
    /\ LET log == Append(proc.log, "wait")
       IN  proc' = IF proc.currentTry < proc.retries
                   THEN [proc EXCEPT !.pc = "authenticate", !.log = log]
                   ELSE [proc EXCEPT !.pc = "returned", !.log = log, !.result = "false"]
    /\ UNCHANGED store

NextConnect ==
    \/ \E retries \in 0 .. MaxRetries : testConnection(retries)
    \/ \E outcome \in Outcomes : testConnection_authenticate(outcome)
    \/ testConnection_wait

\* every attempt settles and every timer fires
SpecConnect ==
    /\ InitAuth /\ [][NextConnect]_vars
    /\ WF_vars(\E outcome \in Outcomes : testConnection_authenticate(outcome))
    /\ WF_vars(testConnection_wait)

-----------------------------------------------------------------------------
(* The NextAuth handler of pages/api/auth/[...nextauth]: auth(req, res).    *)
(* proc holds the module-level dbInitialized and dbInitializationPromise,   *)
(* the calls of initDb, the requests that await the promise, the response   *)
(* sent last, and the environment: whether a required variable is missing   *)
(* in production, and whether the database can be reached.                  *)

\* if (dbInitializationPromise): the promise of an earlier call is returned
cached_never(promise) == FALSE

cached(promise) == promise # Null

InitNextAuth ==
    /\ invoices = {} /\ resp = NoResponse /\ inflight = [s \in Slots |-> Idle]
    /\ calc = NoCalc /\ users = {} /\ tokens = {}
    /\ \E missing \in BOOLEAN, reachable \in BOOLEAN :
        proc = [pc |-> "nextauth", envMissing |-> missing, reachable |-> reachable,
                dbInitialized |-> FALSE, promise |-> Null, calls |-> 0, result |-> Null,
                awaiting |-> [s \in Slots |-> Null],
                res |-> [url |-> Null, status |-> 0, error |-> FALSE, got |-> Null]]

\* the database comes up
databaseUp ==
    /\ ~proc.reachable
    /\ proc' = [proc EXCEPT !.reachable = TRUE]
    /\ UNCHANGED store

\* auth(req, res) up to its await of initializeAuth(): the cached promise, or
\* validateEnvVars (which throws into the catch block of auth) and initDb()
auth_initializeAuth(s, url) ==
    /\ proc.awaiting[s] = Null
    /\ proc' =
        IF cached(proc.promise)
        THEN [proc EXCEPT !.awaiting[s] = url]
        ELSE IF proc.envMissing
        THEN [proc EXCEPT !.res = [url |-> url, status |-> 500, error |-> TRUE, got |-> Null]]
        ELSE [proc EXCEPT !.awaiting[s] = url, !.promise = "pending", !.calls = @ + 1]
    /\ UNCHANGED store

\* initDb() settles: .then(success => { dbInitialized = success; ... })
initDb_then ==
    /\ proc.promise = "pending"
    /\ LET success == IF proc.reachable THEN "true" ELSE "false"
       IN  proc' = [proc EXCEPT !.promise = success, !.result = success,
                                !.dbInitialized = proc.reachable]
    /\ UNCHANGED store

\* the await of initializeAuth() returns; getAuthOptions; then
\* NextAuth(req, res, authOptions), which answers or throws
auth_NextAuth(s, throws) ==
    /\ proc.awaiting[s] # Null
    /\ proc.promise \in {"true", "false"}
    /\ LET url == proc.awaiting[s]
           status == IF throws /\ url # "/api/auth/session" THEN 500 ELSE 200
       IN  proc' = [proc EXCEPT !.awaiting[s] = Null,
                        !.res = [url |-> url, status |-> status, error |-> throws,
                                 got |-> proc.promise]]
    /\ UNCHANGED store

\* the signIn callback that NextAuth runs for the callback of a provider, in
\* a request whose await of initializeAuth() has returned
auth_signIn(provider, p) ==
    /\ proc.pc = "nextauth"
    /\ proc.promise \in {"true", "false"}
    /\ signIn(provider, p.email, p.sub, proc.dbInitialized, TRUE)

NextNextAuth ==
    \/ databaseUp
    \/ \E s \in Slots, url \in {"/api/auth/session", "/api/auth/callback/google"} : auth_initializeAuth(s, url)
    \/ initDb_then
    \/ \E s \in Slots, throws \in BOOLEAN : auth_NextAuth(s, throws)
    \/ \E provider \in {"google", "credentials"}, p \in GoogleProfiles : auth_signIn(provider, p)

\* requests keep arriving, initDb settles, and Google sign-ins keep arriving
SpecNextAuth ==
    /\ InitNextAuth /\ [][NextNextAuth]_vars
    /\ WF_vars(initDb_then)
    /\ WF_vars(\E s \in Slots, url \in {"/api/auth/session", "/api/auth/callback/google"} : auth_initializeAuth(s, url))
    /\ \A p \in GoogleProfiles : SF_vars(auth_signIn("google", p) /\ resp' # resp)

-----------------------------------------------------------------------------
(* The Express server in production: server/src/index.js.  The routers of   *)
(* /api/auth, /api/invoices and /api/users are mounted first, then the      *)
(* static files and app.get('*'), then the error handler, and last the      *)
(* middleware that initializes the database.  A request runs through the    *)
(* layers in this order until one of them answers, so the last middleware   *)
(* is reached by the requests that no router and no earlier layer answers.  *)
(* proc holds global.dbConnectionTested.                                    *)

\* the middleware of the else branch, for a request that reached it:
\* testConnection() and initDb() return whether they connected, and
\* global.dbConnectionTested = true follows in either case
express_dbInit(connected) ==
    /\ proc.pc = "idle"
    /\ proc' = [pc |-> "dbConnectionTested", connected |-> connected]
    /\ UNCHANGED store

\* the requests that the router of /api/invoices answers, and the ones that
\* fall through to the last middleware
NextExpress ==
    \/ ExpressList(Users) \/ ExpressGet(Users)
    \/ ExpressCreate(Users, MetaBodies) \/ ExpressUpdate(Users, MetaBodies)
    \/ ExpressDelete(Users)
    \/ \E connected \in BOOLEAN : express_dbInit(connected)

SpecExpress == Init /\ [][NextExpress]_vars

-----------------------------------------------------------------------------
(* Claims about the calculator *)

\* the sum of quantity * unitPrice over the positions I of items, in no order
RECURSIVE SumOver(_, _)
SumOver(items, I) ==
    IF I = {} THEN 0
    ELSE LET i == CHOOSE j \in I : TRUE
         IN  items[i].quantity * items[i].unitPrice + SumOver(items, I \ {i})

Orders(n) == {f \in [1 .. n -> 1 .. n] : \A i, j \in 1 .. n : f[i] = f[j] => i = j}
Reordered(items, f) == [i \in 1 .. Len(items) |-> items[f[i]]]

\* C5: for every item sequence and every taxRate the calculator returns
\* subtotal = the sum of quantity * unitPrice over the items, whatever their
\* order, and total = subtotal + subtotal * taxRate / 100; no items give 0 and 0,
\* and taxRate 0 gives total = subtotal; no input is rejected.
C5_CalculatorCorrect ==
    /\ calc.pc = "input" => ENABLED RunBeforeCreate /\ ENABLED RunBeforeUpdate
    /\ Recomputed =>
        LET items == calc.in.items
            r == calc.in.taxRate
        IN  /\ calc.out.subtotal = SumOver(items, 1 .. Len(items))
            /\ \A f \in Orders(Len(items)) :
                 computeTotals(Reordered(items, f), r) =
                     [subtotal |-> calc.out.subtotal, total |-> calc.out.total]
            /\ 100 * calc.out.total = calc.out.subtotal * (100 + r)
            /\ (items = <<>> => calc.out.subtotal = 0 /\ calc.out.total = 0)
            /\ (r = 0 => calc.out.total = calc.out.subtotal)

C5_Witness ==
    /\ Recomputed
    /\ Len(calc.in.items) >= 2
    /\ calc.in.items[1] # calc.in.items[2]
    /\ calc.in.taxRate # 0
    /\ calc.out.total # calc.out.subtotal
    /\ calc.out.subtotal # calc.in.subtotal

\* C6: applying the calculator in a hook changes no field of the invoice
\* other than subtotal and total, and when the hook does not recompute it
\* changes nothing at all.
C6_HookChangesOnlyTotals ==
    calc.pc \in {"created", "updated"} =>
        /\ DOMAIN calc.out = DOMAIN calc.in
        /\ \A k \in DOMAIN calc.in \ {"subtotal", "total"} : calc.out[k] = calc.in[k]
        /\ (~Recomputed => calc.out = calc.in)

C6_Witness ==
    /\ calc.pc = "updated"
    /\ Recomputed
    /\ calc.in.items # <<>>
    /\ calc.out.subtotal # calc.in.subtotal
    /\ calc.out.total # calc.in.total
    /\ calc.out.items = calc.in.items

-----------------------------------------------------------------------------
(* Claims about the stored totals *)

RowIn(table, id) == CHOOSE r \in table : r.id = id

\* the totals of row r are the ones of the calculator for r's items and taxRate
Consistent(r) ==
    /\ r.subtotal = SumOver(r.items, 1 .. Len(r.items))
    /\ 100 * r.total = r.subtotal * (100 + r.taxRate)

\* the step is a handled create, or update, that was answered with success
CreateStep == resp'.op = "create" /\ resp'.status = 201 /\ invoices' # invoices
UpdateStep == resp'.op = "update" /\ resp'.status = 200

AllBodies == TotalsBodies \cup NextTotalsBodies

\* the step is the update of invoice id with this body by one of the two APIs
IsUpdate(u, id, body) ==
    \/ body \in TotalsBodies /\ express_updateInvoice(u, id, body)
    \/ body \in NextTotalsBodies /\ next_updateInvoice(u, id, body)

\* C1: in every reachable state every stored invoice has subtotal = sum of
\* quantity * unitPrice over its items and total = subtotal + subtotal * taxRate / 100.
C1_StoredTotalsConsistent == \A r \in invoices : Consistent(r)

\* C2: a create stores the subtotal and total that the calculator computes
\* from the request's items and taxRate (their defaults when absent), whatever
\* subtotal or total the request carries.
C2_CreateStoresComputedTotals ==
    [][CreateStep =>
        \A u \in Users, body \in AllBodies :
            (\/ body \in TotalsBodies /\ express_createInvoice(u, body)
             \/ body \in NextTotalsBodies /\ next_createInvoice(u, body))
            => LET row == RowIn(invoices', resp'.id)
                   t == computeTotals(Default(body, "items", <<>>), Default(body, "taxRate", 0))
               IN  /\ Consistent(row)
                   /\ row.subtotal = t.subtotal
                   /\ row.total = t.total
                   /\ invoices' = invoices \cup {row}]_vars

C2_Witness ==
    /\ resp.op = "create" /\ resp.status = 201
    /\ {"subtotal", "total"} \subseteq resp.keys
    /\ \E r \in invoices :
        /\ r.id = resp.id
        /\ r.items # <<>> /\ r.taxRate # 0
        /\ r.subtotal # Bogus /\ r.total # Bogus

\* C3: every update whose payload contains items and/or taxRate stores the
\* subtotal and total recomputed from the resulting items and taxRate (an
\* absent field keeps its stored value), whatever subtotal or total it carries.
C3_UpdateRecomputes ==
    [][UpdateStep =>
        \A u \in Users, id \in Ids, body \in AllBodies :
            (IsUpdate(u, id, body) /\ DOMAIN body \cap {"items", "taxRate"} # {})
            => LET old == RowIn(invoices, id)
                   new == RowIn(invoices', id)
               IN  /\ new.items = Default(body, "items", old.items)
                   /\ new.taxRate = Default(body, "taxRate", old.taxRate)
                   /\ Consistent(new)]_vars

\* C4: an update whose payload contains neither items nor taxRate leaves the
\* stored subtotal and total unchanged.
C4_OtherUpdatesKeepTotals ==
    [][UpdateStep =>
        \A u \in Users, id \in Ids, body \in AllBodies :
            (IsUpdate(u, id, body) /\ DOMAIN body \cap {"items", "taxRate"} = {})
            => LET old == RowIn(invoices, id)
                   new == RowIn(invoices', id)
               IN  new.subtotal = old.subtotal /\ new.total = old.total]_vars

\* the rule to compare with: recompute whenever items or taxRate is present
\* in the values handed to update, changed or not
recomputeWhenPresent(invoice, values) == beforeUpdate(set(invoice, values), Settable(values))

\* C8: for every stored invoice and every update payload, the change-tracking
\* hook leaves the same subtotal and total as recomputing whenever items or
\* taxRate is present in the payload.
C8_ChangeTrackingEquivalent ==
    [][UpdateStep =>
        \A u \in Users, id \in Ids, body \in AllBodies :
            IsUpdate(u, id, body)
            => LET values == IF body \in TotalsBodies THEN body ELSE next_updateValues(body)
                   want == recomputeWhenPresent(RowIn(invoices, id), values)
                   new == RowIn(invoices', id)
               IN  new.subtotal = want.subtotal /\ new.total = want.total]_vars

-----------------------------------------------------------------------------
(* Claims about owners and ids *)

\* C9: a get, update or delete of an invoice by a user other than its owner is
\* answered 404 and changes nothing, and a list returns exactly the ids of the
\* invoices that the requester owns.
C9_OnlyOwnerReaches ==
    [][/\ \A u \in Users, id \in Ids :
            (/\ resp'.op \in {"get", "update", "delete"}
             /\ resp'.user = u /\ resp'.id = id
             /\ \A r \in invoices : r.id = id => r.UserId # u)
            => resp'.status = 404 /\ invoices' = invoices
       /\ resp'.op = "list" =>
            /\ invoices' = invoices
            /\ resp'.ids = {r.id : r \in {x \in invoices : x.UserId = resp'.user}}]_vars

C9_Witness ==
    /\ resp.op = "update" /\ resp.status = 404
    /\ \E r \in invoices : r.id = resp.id /\ r.UserId \in Users \ {resp.user}
    /\ \E r \in invoices : r.UserId = resp.user

\* C10: every stored invoice has the id it was created with, whatever the
\* payloads of the updates carried, and no two stored invoices share an id.
C10_IdImmutableUnique ==
    /\ \A r \in invoices : r.id = r.createdId
    /\ \A r1, r2 \in invoices : r1.id = r2.id => r1 = r2

C10_Witness ==
    /\ resp.op = "update" /\ resp.status = 200 /\ "id" \in resp.keys
    /\ Cardinality(invoices) = MaxInvoices
    /\ \E r \in invoices : r.id = resp.id

\* C11: a successful delete removes exactly the row of that invoice: every
\* other invoice, of the same or of another user, every user record with its
\* settings, and the tokens are unchanged.
C11_DeleteRemovesOnlyThatRow ==
    [][(resp'.op = "delete" /\ resp'.status = 200) =>
        /\ \E r \in invoices :
            /\ r.id = resp'.id
            /\ r.UserId = resp'.user
            /\ invoices' = invoices \ {r}
        /\ users' = users
        /\ tokens' = tokens]_vars

C11_Witness ==
    /\ resp.op = "delete" /\ resp.status = 200
    /\ resp.id \notin {r.id : r \in invoices}
    /\ \E r \in invoices : r.UserId = resp.user

\* C18: the owner of an invoice is the authenticated user who created it,
\* whatever the create payload contains, and no update, whatever its payload
\* carries, changes the owner of a stored invoice.
C18_OwnerNeverChanges ==
    [][/\ \A r \in invoices, q \in invoices' : q.id = r.id => q.UserId = r.UserId
       /\ CreateStep => RowIn(invoices', resp'.id).UserId = resp'.user]_vars

-----------------------------------------------------------------------------
(* Claims about requests in flight *)

\* C7: under every interleaving of in-flight creates and updates, when a
\* request has written an invoice, the subtotal and total stored for that
\* invoice are the ones computed from its own items and taxRate, and the rows
\* of the other invoices are untouched.
C7_StoredTotalsOwnUnderInterleaving ==
    [][\A s \in Slots :
        LET r == inflight[s]
        IN  (r.pc \in {"creating", "updating"} /\ inflight'[s] = Idle)
            => /\ Consistent(RowIn(invoices', r.id))
               /\ \A x \in invoices : x.id # r.id => x \in invoices']_vars

\* no request is in flight
AllIdle == \A s \in Slots : inflight[s] = Idle

\* C17: after two concurrent updates of one invoice have both completed, the
\* stored subtotal and total are the ones computed from the stored items and
\* taxRate.
C17_ConcurrentUpdatesLeaveConsistentTotals ==
    AllIdle => \A r \in invoices : Consistent(r)

-----------------------------------------------------------------------------
(* Claims about accounts *)

\* the data of a response carries no password field, at the top or in its user
PasswordFree(data) ==
    /\ "password" \notin DOMAIN data
    /\ "user" \in DOMAIN data => "password" \notin DOMAIN data.user

C16_NoPasswordNoLogin ==
    [][(/\ resp'.op = "login"
        /\ resp'.status # 400
        /\ \E u \in users : u.email = resp'.req.email /\ u.password = Null)
       => /\ resp'.status = 401
          /\ resp'.message = "Invalid credentials"
          /\ resp'.data = JsonNull
          /\ tokens' = tokens]_vars

C16_Witness ==
    /\ resp.op = "login" /\ resp.status = 401
    /\ \E u \in users : u.email = resp.req.email /\ u.password = Null /\ u.googleId # Null

\* C19: authenticate accepts a bearer token only if a login of that user
\* signed it, and verify-email marks a user verified only for the token that
\* the registration of that user signed.
C19_TokensBoundToFlow ==
    /\ (resp.op = "profile" /\ resp.status = 200) =>
            resp.req.flow = "login" /\ resp.req.id = resp.data.id
    /\ (resp.op = "verify-email" /\ resp.status = 200) => resp.req.flow = "verify"

\* C20: the responses of forgot-password for two well-formed emails, one
\* registered and one not, have the same status, message and data.
C20_ForgotPasswordUniform ==
    [][(/\ resp.op = "forgot-password" /\ resp'.op = "forgot-password"
        /\ resp.status # 400 /\ resp'.status # 400
        /\ (User_findOne(resp.req.email) = {}) # (User_findOne(resp'.req.email) = {}))
       => /\ resp'.status = resp.status
          /\ resp'.message = resp.message
          /\ resp'.data = resp.data]_vars

\* a request in flight that writes a new user for an email that is stored by now
LosesToEmail(r) ==
    /\ r.pc \in {"registering", "creatingUser"}
    /\ User_findOne(r.user.email) # {}

\* C12: no two stored users share an email, also after concurrent register
\* requests and a register that races a Google sign-in for the same email,
\* and a request that loses to an existing email creates no user.
C12_EmailUnique ==
    [][/\ \A a, b \in users' : a.email = b.email => a = b
       /\ \A s \in Slots :
            (LosesToEmail(inflight[s]) /\ inflight'[s] = Idle) => users' = users]_vars

C12_Witness ==
    /\ resp.op = "register" /\ resp.status = 500
    /\ \E u \in users : u.email = resp.req.email /\ u.googleId # Null
    /\ \E u \in users : u.email # resp.req.email /\ u.password # Null
    /\ AllIdle

\* the bearer token of a stored user who has not verified the email
Unverified(bearer) ==
    /\ jwt_verify(bearer)
    /\ \E u \in User_findByPk(bearer.id) : ~u.emailVerified

\* the invoice requests of the Next.js API and of the Express API with this token
NextInvoiceRequest(bearer) ==
    \/ next_invoices(bearer, "list", Null, NoBody)
    \/ next_invoices(bearer, "create", Null, GateBody)
    \/ \E id \in Ids :
        \/ next_invoices(bearer, "get", id, NoBody)
        \/ next_invoices(bearer, "update", id, GateBody @@ ("taxRate" :> 10))
        \/ next_invoices(bearer, "delete", id, NoBody)

ExpressInvoiceRequest(bearer) ==
    \/ express_invoices(bearer, "list", Null, NoBody)
    \/ express_invoices(bearer, "create", Null, GateBody)
    \/ \E id \in Ids :
        \/ express_invoices(bearer, "get", id, NoBody)
        \/ express_invoices(bearer, "update", id, "taxRate" :> 10)
        \/ express_invoices(bearer, "delete", id, NoBody)

\* C15: for an authenticated user whose emailVerified is false no invoice
\* list, get, create, update or delete is performed: the Next.js API answers
\* 403 without data, the Express API answers an error, and the stored
\* invoices are unchanged.
C15_UnverifiedReachNoInvoice ==
    [][\A bearer \in Presented : Unverified(bearer) =>
        /\ NextInvoiceRequest(bearer) =>
              /\ resp'.status = 403
              /\ resp'.data = JsonNull
              /\ invoices' = invoices
        /\ ExpressInvoiceRequest(bearer) =>
              /\ resp'.status >= 400
              /\ resp'.data = JsonNull
              /\ invoices' = invoices]_vars

C15_Witness ==
    /\ resp.op = "invoices" /\ resp.status = 403
    /\ Unverified(resp.req)
    /\ resp.req.flow = "login"
    /\ \E r \in invoices : r.UserId # resp.req.id

\* C14: under register, login, verify-email, Google sign-in, settings and
\* invoice requests a user is created only by a registration or by the Google
\* sign-in of an email that no user has, no user is removed, and the settings
\* of a user change only in a successful settings update of that user.
C14_UserLifecycle ==
    [][/\ \A u \in users : \E v \in users' : v.id = u.id /\ v.email = u.email
       /\ \A v \in users' : (\A u \in users : u.id # v.id) =>
            /\ resp'.op \in {"register", "signIn"}
            /\ resp'.req.email = v.email
            /\ User_findOne(v.email) = {}
            /\ resp'.op = "signIn" => v.googleId = resp'.req.sub
       /\ \A u \in users, v \in users' : (u.id = v.id /\ u.settings # v.settings) =>
            /\ resp'.op = "settings"
            /\ resp'.status = 200
            /\ resp'.req.id = u.id]_vars

C14_Witness ==
    /\ resp.op = "signIn" /\ resp.status = 200
    /\ \E u \in users :
         /\ u.email = resp.req.email /\ u.googleId = resp.req.sub
         /\ u.password # Null /\ u.settings # DefaultSettings
    /\ \E u \in users : u.password = Null /\ u.googleId # Null
    /\ invoices # {}

\* C21: a user created by the register endpoint is created with emailVerified
\* false, and each successful invoice request of that user comes after a
\* successful verify-email with a valid token or a Google sign-in for the
\* account.  Stated step by step: a registration creates the user unverified,
\* emailVerified turns true only in a successful verify-email with a token of
\* that user or in a Google sign-in of that email, and an invoice request
\* succeeds only for a verified user.
C21_VerifiedBeforeInvoices ==
    [][/\ \A v \in users' : (resp'.op = "register" /\ \A u \in users : u.id # v.id) =>
            ~v.emailVerified
       /\ \A u \in users, v \in users' :
            (u.id = v.id /\ ~u.emailVerified /\ v.emailVerified) =>
                \/ /\ resp'.op = "verify-email" /\ resp'.status = 200
                   /\ jwt_verify(resp'.req) /\ resp'.req.id = u.id
                \/ /\ resp'.op = "signIn" /\ resp'.status = 200
                   /\ resp'.req.email = u.email
       /\ \A bearer \in Presented :
            (/\ authenticate(bearer) = "ok"
             /\ NextInvoiceRequest(bearer) \/ ExpressInvoiceRequest(bearer)
             /\ resp'.status < 400) => requestUser(bearer).emailVerified]_vars

\* C22: emailVerified is monotonic: no register, login, verify-email, Google
\* sign-in, settings or invoice request sets it back to false, and a
\* verify-email request for a user who is verified already is answered 400
\* and changes nothing.
C22_EmailVerifiedMonotonic ==
    [][/\ \A u \in users, v \in users' : (u.id = v.id /\ u.emailVerified) => v.emailVerified
       /\ (/\ resp'.op = "verify-email"
           /\ jwt_verify(resp'.req)
           /\ \E u \in User_findByPk(resp'.req.id) : u.emailVerified)
          => /\ resp'.status = 400
             /\ <<users, tokens, invoices>>' = <<users, tokens, invoices>>]_vars

C22_Witness ==
    /\ resp.op = "verify-email" /\ resp.status = 400
    /\ resp.message = "Email is already verified"
    /\ \E u \in User_findByPk(resp.req.id) :
         u.emailVerified /\ u.googleId # Null /\ u.settings # DefaultSettings

\* a payload that lacks invoiceDate, sender, recipient or items, or whose
\* items is not a non-empty array
Lacks(body) ==
    \/ \E k \in {"invoiceDate", "sender", "recipient", "items"} : k \notin DOMAIN body
    \/ body.items = NotArray
    \/ body.items = <<>>

\* the answer 400 'Missing required fields' that leaves the invoices alone
Rejected ==
    /\ resp'.status = 400
    /\ resp'.message = "Missing required fields"
    /\ invoices' = invoices

\* C23 as stated: a create or update of the Next.js API with such a payload
\* is answered 400 'Missing required fields' and leaves the stored invoices
\* unchanged.
C23_MissingFieldsRejected ==
    [][\A u \in Users, body \in RequiredBodies : Lacks(body) =>
        /\ next_createInvoice(u, body) => Rejected
        /\ \A id \in Ids : next_updateInvoice(u, id, body) => Rejected]_vars

\* C23 amended: a create with such a payload, and an update with such a
\* payload of an invoice that the requester owns, is answered 400 'Missing
\* required fields'; an update of an invoice that the requester does not have
\* is answered 404 'Invoice not found', whatever the payload; all of them
\* leave the stored invoices unchanged.
C23_MissingFieldsRejectedWhenFound ==
    [][\A u \in Users, body \in RequiredBodies : Lacks(body) =>
        /\ next_createInvoice(u, body) => Rejected
        /\ \A id \in Ids : next_updateInvoice(u, id, body) =>
            IF findOne(id, u) # {} THEN Rejected
            ELSE /\ resp'.status = 404
                 /\ resp'.message = "Invoice not found"
                 /\ invoices' = invoices]_vars

C23_Witness ==
    /\ resp.op = "update" /\ resp.status = 400
    /\ resp.message = "Missing required fields"
    /\ findOne(resp.id, resp.user) # {}
    /\ \E r \in invoices : r.UserId # resp.user

-----------------------------------------------------------------------------
(* Claims about the connection to the database *)

\* the attempts of a log, and the failed ones
Attempts(log) == {i \in 1 .. Len(log) : log[i] # "wait"}
Failed(log) == {i \in 1 .. Len(log) : log[i] \notin {"wait", "ok"}}

\* what testConnection has done so far is within the claim
ConnectOk ==
    proc.pc \in {"authenticate", "waiting", "returned"} =>
        /\ Cardinality(Attempts(proc.log)) <= proc.retries
        /\ \A i \in 1 .. Len(proc.log) : proc.log[i] = "ok" =>
                i = Len(proc.log) /\ proc.pc = "returned" /\ proc.result = "true"
        /\ \A i \in 1 .. Len(proc.log) : proc.log[i] = "wait" =>
                /\ i - 1 \in Failed(proc.log)
                /\ i + 1 \in Attempts(proc.log) \/ (i = Len(proc.log) /\ proc.pc = "authenticate")
        /\ proc.pc = "returned" =>
                /\ proc.result = "true" => proc.log[Len(proc.log)] = "ok"
                /\ proc.result = "false" =>
                        /\ Cardinality(Failed(proc.log)) = proc.retries
                        /\ Attempts(proc.log) = Failed(proc.log)

\* C24: testConnection(retries, delay) returns after at most retries
\* attempts: true at the first attempt that succeeds, without another one,
\* false once retries attempts in a row have failed, and it waits only between
\* two attempts, not after the last failed one.
C24_TestConnectionTerminates ==
    /\ []ConnectOk
    /\ (proc.pc \in {"authenticate", "waiting"}) ~> (proc.pc = "returned")

C24_Witness ==
    /\ proc.pc = "returned" /\ proc.result = "false"
    /\ proc.retries = 3
    /\ Len(proc.log) = 5

\* C25: across sequential and concurrent auth requests initializeAuth invokes
\* initDb at most once, and every caller receives the result of that one
\* invocation.
C25_InitDbOnce ==
    proc.pc = "nextauth" =>
        /\ proc.calls <= 1
        /\ proc.res.got # Null => proc.calls = 1 /\ proc.res.got = proc.result

C25_Witness ==
    /\ proc.pc = "nextauth"
    /\ proc.res.got = "true"
    /\ \E s \in Slots : proc.awaiting[s] # Null
    /\ users # {}

\* C26: when the first initDb has failed and the database is reachable
\* afterwards, a later Google sign-in succeeds in the end.
C26_FailedInitRecovers ==
    (proc.pc = "nextauth" /\ proc.result = "false" /\ proc.reachable)
        ~> (resp.op = "signIn" /\ resp.status = 200)

\* C28: a request for /api/auth/session is never answered 500, and on an
\* internal error it is answered 200 with the empty session.
C28_SessionNever500 ==
    (proc.pc = "nextauth" /\ proc.res.url = "/api/auth/session") =>
        /\ proc.res.status # 500
        /\ proc.res.error => proc.res.status = 200

\* C27: in production testConnection and initDb have completed before the
\* first request to an /api route is handled by its route handler: a step in
\* which a route handler answers or writes is taken with
\* global.dbConnectionTested set.
C27_DbInitBeforeFirstRequest ==
    [][(resp' # resp \/ invoices' # invoices) => proc.pc = "dbConnectionTested"]_vars

(* Claims about the settings *)

\* new is old with the payload merged into it: one level for the keys of the
\* settings, one more for the fields of the sender
Merged(old, payload, new) ==
    LET oldSender == IF "sender" \in DOMAIN old THEN old.sender ELSE <<>>
    IN  /\ DOMAIN new = DOMAIN old \cup DOMAIN payload
        /\ \A k \in DOMAIN old \ DOMAIN payload : new[k] = old[k]
        /\ \A k \in DOMAIN payload \ {"sender"} : new[k] = payload[k]
        /\ "sender" \in DOMAIN payload =>
            /\ DOMAIN new.sender = DOMAIN oldSender \cup DOMAIN payload.sender
            /\ \A f \in DOMAIN payload.sender : new.sender[f] = payload.sender[f]
            /\ \A f \in DOMAIN oldSender \ DOMAIN payload.sender :
                new.sender[f] = oldSender[f]

====
